---- MODULE Spec2Model ----
(***************************************************************************)
(* Model of the packing engine of pallet_packer_streamlit.py:              *)
(*   try_place        best-fit placement with rotation + guillotine split  *)
(*   pack_one_layer   greedy phase (area descending) then gap-fill phase   *)
(*   pack_all_pallets layer stacking under a height budget, pallet loop    *)
(* All dimensions are integers.  Python floats represent small integers    *)
(* exactly, so on integer inputs every comparison below is the one the     *)
(* program makes; the test `d > 1e-9` is `d > 0` on integers.              *)
(***************************************************************************)
EXTENDS Integers, Sequences, FiniteSets

VARIABLES
    pallet,          \* argument pallet: [L, W, H]
    boxes,           \* argument boxes: name -> <<L, W, H>>
    order,           \* argument order: name -> quantity (never modified)
    order_left,      \* pack_all_pallets: the deep copy that is decremented
    pc,              \* position of the run: "outer", "inner", "greedy",
                     \* "gap", "pallet_end", "done" (and "tp_call", "tp_ok",
                     \* "tp_fail" for a single call of try_place)
    pallet_layers,   \* pack_all_pallets: the result, a list of layer lists
    layer_list,      \* pack_all_pallets: layers of the pallet being stacked
    current_height,  \* pack_all_pallets: height consumed on that pallet
    placed_list,     \* pack_one_layer: placements of the layer being packed
    free_rects,      \* pack_one_layer: free rectangles <<x, y, L, W>>
    valid,           \* pack_one_layer: names of the greedy phase, sorted
    vi,              \* position of `for nm in valid` (1-based)
    rem_names,       \* pack_one_layer: names of the gap-fill phase, sorted
    r,               \* pack_one_layer: index r of the gap-fill scan (1-based)
    greedy_len       \* history: len(placed_list) when the greedy phase ended

vars == <<pallet, boxes, order, order_left, pc, pallet_layers, layer_list,
          current_height, placed_list, free_rects, valid, vi, rem_names, r,
          greedy_len>>

\* ----------------------------------------------------------------- bounds
MaxDim == 3
MaxQty == 2
MaxH == 2

\* The keys of the order dict, in insertion order (list(order_left.keys())).
names == <<"A", "B">>

NameSet == {names[i] : i \in 1..Len(names)}

\* ---------------------------------------------------------- pure helpers
build_info(bx) ==
    [nm \in DOMAIN bx |->
        [L |-> bx[nm][1], W |-> bx[nm][2], H |-> bx[nm][3],
         Area |-> bx[nm][1] * bx[nm][2]]]

free_area(fr) == fr[3] * fr[4]

\* new = free_rects.copy(); new.pop(i)
Pop(s, i) == [k \in 1..(Len(s) - 1) |-> IF k < i THEN s[k] ELSE s[k + 1]]

\* `d > 1e-9` on integer-valued d
AboveEps(d) == d > 0

NoBest == [some |-> FALSE, leftover |-> 0, new |-> <<>>,
           placement |-> <<0, 0, 0, 0, FALSE>>]

\* Mutant of Option1: the right remainder keeps the whole width of the
\* rectangle, so it overlaps the top remainder.
Option1WideRemainder(rects, i, L_box, W_box, best) ==
    LET fr == rects[i]
        leftover == free_area(fr) - (L_box * W_box)
        new0 == Pop(rects, i)
        new1 == IF AboveEps(fr[3] - L_box)
                THEN Append(new0, <<fr[1] + L_box, fr[2], fr[3] - L_box, fr[4]>>)
                ELSE new0
        new2 == IF AboveEps(fr[4] - W_box)
                THEN Append(new1, <<fr[1], fr[2] + W_box, fr[3], fr[4] - W_box>>)
                ELSE new1
    IN  IF L_box <= fr[3] /\ W_box <= fr[4]
        THEN IF ~best.some \/ leftover < best.leftover
             THEN [some |-> TRUE, leftover |-> leftover, new |-> new2,
                   placement |-> <<fr[1], fr[2], L_box, W_box, FALSE>>]
             ELSE best
        ELSE best

\* Mutant of Option1: `leftover <= best[0]`, so a later rectangle of equal
\* area replaces the earlier one.
Option1LastWins(rects, i, L_box, W_box, best) ==
    LET fr == rects[i]
        leftover == free_area(fr) - (L_box * W_box)
        new0 == Pop(rects, i)
        new1 == IF AboveEps(fr[3] - L_box)
                THEN Append(new0, <<fr[1] + L_box, fr[2], fr[3] - L_box, W_box>>)
                ELSE new0
        new2 == IF AboveEps(fr[4] - W_box)
                THEN Append(new1, <<fr[1], fr[2] + W_box, fr[3], fr[4] - W_box>>)
                ELSE new1
    IN  IF L_box <= fr[3] /\ W_box <= fr[4]
        THEN IF ~best.some \/ leftover <= best.leftover
             THEN [some |-> TRUE, leftover |-> leftover, new |-> new2,
                   placement |-> <<fr[1], fr[2], L_box, W_box, FALSE>>]
             ELSE best
        ELSE best

\* Option 1 of the loop body: default orientation in rectangle i.
Option1(rects, i, L_box, W_box, best) ==
    LET fr == rects[i]
        fx == fr[1]
        fy == fr[2]
        fL == fr[3]
        fW == fr[4]
        leftover == free_area(fr) - (L_box * W_box)
        new0 == Pop(rects, i)
        new1 == IF AboveEps(fL - L_box)
                THEN Append(new0, <<fx + L_box, fy, fL - L_box, W_box>>)
                ELSE new0
        new2 == IF AboveEps(fW - W_box)
                THEN Append(new1, <<fx, fy + W_box, fL, fW - W_box>>)
                ELSE new1
    IN  IF L_box <= fL /\ W_box <= fW
        THEN IF ~best.some \/ leftover < best.leftover
             THEN [some |-> TRUE, leftover |-> leftover, new |-> new2,
                   placement |-> <<fx, fy, L_box, W_box, FALSE>>]
             ELSE best
        ELSE best

\* Mutant of Option2: the rotated placement reports the unswapped footprint.
Option2Unswapped(rects, i, L_box, W_box, best) ==
    LET fr == rects[i]
        leftover == free_area(fr) - (L_box * W_box)
        new0 == Pop(rects, i)
        new1 == IF AboveEps(fr[3] - W_box)
                THEN Append(new0, <<fr[1] + W_box, fr[2], fr[3] - W_box, L_box>>)
                ELSE new0
        new2 == IF AboveEps(fr[4] - L_box)
                THEN Append(new1, <<fr[1], fr[2] + L_box, fr[3], fr[4] - L_box>>)
                ELSE new1
    IN  IF W_box <= fr[3] /\ L_box <= fr[4]
        THEN IF ~best.some \/ leftover < best.leftover
             THEN [some |-> TRUE, leftover |-> leftover, new |-> new2,
                   placement |-> <<fr[1], fr[2], L_box, W_box, TRUE>>]
             ELSE best
        ELSE best

\* Option 2 of the loop body: rotated orientation in rectangle i.
Option2(rects, i, L_box, W_box, best) ==
    LET fr == rects[i]
        fx == fr[1]
        fy == fr[2]
        fL == fr[3]
        fW == fr[4]
        leftover == free_area(fr) - (L_box * W_box)
        new0 == Pop(rects, i)
        new1 == IF AboveEps(fL - W_box)
                THEN Append(new0, <<fx + W_box, fy, fL - W_box, L_box>>)
                ELSE new0
        new2 == IF AboveEps(fW - L_box)
                THEN Append(new1, <<fx, fy + L_box, fL, fW - L_box>>)
                ELSE new1
    IN  IF W_box <= fL /\ L_box <= fW
        THEN IF ~best.some \/ leftover < best.leftover
             THEN [some |-> TRUE, leftover |-> leftover, new |-> new2,
                   placement |-> <<fx, fy, W_box, L_box, TRUE>>]
             ELSE best
        ELSE best

\* `for i, fr in enumerate(free_rects):` from index i on, with the value of
\* best so far.  Binding b over {best} and b1 over {Option1(...)} takes the
\* value of best once per assignment, as the Python variable holds it.
RECURSIVE TryPlaceLoop(_, _, _, _, _)
TryPlaceLoop(rects, i, L_box, W_box, best) ==
    IF i > Len(rects) THEN best
    ELSE CHOOSE result \in
            {TryPlaceLoop(rects, i + 1, L_box, W_box,
                Option2(rects, i, L_box, W_box, b1)) :
                    b1 \in {Option1(rects, i, L_box, W_box, b) : b \in {best}}} :
            TRUE

\* try_place(free_rects, dims) -> (ok, new_free_rects, placement)
try_place(rects, dims) ==
    LET best == TryPlaceLoop(rects, 1, dims[1], dims[2], NoBest)
    IN  IF ~best.some
        THEN [ok |-> FALSE, free |-> rects, pos |-> <<0, 0, 0, 0, FALSE>>]
        ELSE [ok |-> TRUE, free |-> best.new, pos |-> best.placement]

\* [n for n in names if order_left[n] > 0]
RECURSIVE Positive(_, _)
Positive(ns, ol) ==
    IF ns = <<>> THEN <<>>
    ELSE IF ol[Head(ns)] > 0 THEN <<Head(ns)>> \o Positive(Tail(ns), ol)
         ELSE Positive(Tail(ns), ol)

\* Stable insertion of n into a sequence sorted by key, after equal keys.
RECURSIVE InsertAsc(_, _, _)
InsertAsc(s, n, key) ==
    IF s = <<>> THEN <<n>>
    ELSE IF key[n] < key[Head(s)] THEN <<n>> \o s
         ELSE <<Head(s)>> \o InsertAsc(Tail(s), n, key)

RECURSIVE SortAsc(_, _)
SortAsc(s, key) ==
    IF s = <<>> THEN <<>>
    ELSE InsertAsc(SortAsc(SubSeq(s, 1, Len(s) - 1), key), s[Len(s)], key)

\* Mutant of SortDesc: the sort without reverse=True.
SortDescNoReverse(s, key) == SortAsc(s, key)

\* list.sort(key=..., reverse=True) is stable too: equal keys keep their order.
SortDesc(s, key) == SortAsc(s, [n \in DOMAIN key |-> 0 - key[n]])

AreaOf(info) == [n \in DOMAIN info |-> info[n].Area]

RECURSIVE SumSeq(_, _)
SumSeq(ns, ol) == IF ns = <<>> THEN 0 ELSE ol[Head(ns)] + SumSeq(Tail(ns), ol)

\* sum(order_left.values())
SumOrder(ol) == SumSeq(names, ol)

RECURSIVE MaxH_of(_)
MaxH_of(placed) ==
    IF Len(placed) = 1 THEN placed[1].H
    ELSE LET m == MaxH_of(Tail(placed))
         IN  IF placed[1].H >= m THEN placed[1].H ELSE m

\* max([b['H'] for b in placed]) if placed else 0
Tallest(placed) == IF placed = <<>> THEN 0 ELSE MaxH_of(placed)

info == build_info(boxes)

MkPlaced(nm, pos) ==
    [name |-> nm, x |-> pos[1], y |-> pos[2], L |-> pos[3], W |-> pos[4],
     H |-> info[nm].H, rotated |-> pos[5]]

\* ------------------------------------------------------------------ inputs
Catalogs(dimsA, dimsB) == {[n \in NameSet |-> IF n = "A" THEN a ELSE b] :
                              a \in dimsA, b \in dimsB}

Orders(qs) == [NameSet -> qs]

\* Well-formed inputs that vary the footprints: boxes of height 1 on pallets
\* of height MaxH.
FootprintInputs ==
    [pallet : [L : (MaxDim - 1)..MaxDim, W : (MaxDim - 1)..MaxDim, H : {MaxH}],
     boxes : Catalogs((1..MaxDim) \X (1..MaxDim) \X {1},
                      (1..MaxDim) \X (1..MaxDim) \X {1}),
     order : Orders(0..MaxQty)]

\* Well-formed inputs that vary the heights (box height 0 included: the
\* program's `tallest_in_layer <= 0` guard), on a square pallet.
HeightInputs ==
    [pallet : [L : {MaxDim}, W : {MaxDim}, H : 1..(MaxH + 1)],
     boxes : Catalogs((1..(MaxDim - 1)) \X {MaxDim} \X (0..MaxH),
                      (1..(MaxDim - 1)) \X {MaxDim} \X (0..MaxH)),
     order : Orders(0..MaxQty)]

\* Inputs the program does not validate: zero or negative box dimensions and
\* negative quantities.
MalformedInputs ==
    [pallet : {[L |-> d, W |-> d, H |-> MaxH] : d \in 1..(MaxDim - 1)},
     boxes : Catalogs(((0 - 1)..(MaxDim - 1)) \X ((0 - 1)..(MaxDim - 1)) \X {1},
                      ((0 - 1)..(MaxDim - 1)) \X ((0 - 1)..(MaxDim - 1)) \X {1}),
     order : Orders((0 - 1)..1)]

\* Pallet 10x10x10, A = [10,4,5], B = [10,6,5], one of each.
Scenario3 ==
    [pallet |-> [L |-> 10, W |-> 10, H |-> 10],
     boxes |-> [n \in NameSet |-> IF n = "A" THEN <<10, 4, 5>>
                                            ELSE <<10, 6, 5>>],
     order |-> [n \in NameSet |-> 1]]

\* Height budget 15, a box [6,6,10] among boxes of height 5, two ordered.
Scenario4 ==
    [pallet |-> [L |-> 6, W |-> 6, H |-> 15],
     boxes |-> [n \in NameSet |-> IF n = "A" THEN <<6, 6, 10>>
                                            ELSE <<3, 3, 5>>],
     order |-> [n \in NameSet |-> IF n = "A" THEN 2 ELSE 0]]

Inputs == FootprintInputs \cup HeightInputs \cup MalformedInputs
          \cup {Scenario3, Scenario4}

\* The state at the entry of pack_all_pallets, up to info = build_info(boxes),
\* for an input of the set ins.
InitFrom(ins) ==
    /\ \E inp \in ins :
          /\ pallet = inp.pallet
          /\ boxes = inp.boxes
          /\ order = inp.order
          /\ order_left = inp.order
    /\ pc = "outer"
    /\ pallet_layers = <<>>
    /\ layer_list = <<>>
    /\ current_height = 0
    /\ placed_list = <<>>
    /\ free_rects = <<>>
    /\ valid = <<>>
    /\ vi = 1
    /\ rem_names = <<>>
    /\ r = 1
    /\ greedy_len = 0

Init == InitFrom(Inputs)

\* The inputs of the runs checked for termination: those of Inputs with every
\* quantity below MaxQty, and the two scenarios.
FairInputs ==
    {inp \in Inputs : \A n \in NameSet : inp.order[n] < MaxQty}
    \cup {Scenario3, Scenario4}

FairInit == InitFrom(FairInputs)

inputs == <<pallet, boxes, order>>

\* ----------------------------------------------------------------- actions
\* pack_all_pallets: `while sum(order_left.values()) > 0:` and the two resets
OuterLoop ==
    /\ pc = "outer"
    /\ IF SumOrder(order_left) > 0
       THEN /\ layer_list' = <<>>
            /\ current_height' = 0
            /\ pc' = "inner"
       ELSE /\ pc' = "done"
            /\ UNCHANGED <<layer_list, current_height>>
    /\ UNCHANGED <<inputs, order_left, pallet_layers, placed_list, free_rects,
                   valid, vi, rem_names, r, greedy_len>>

\* `while current_height < max_pallet_height:`, the remaining_boxes test and
\* the entry of pack_one_layer up to the sort of valid
InnerLoop ==
    /\ pc = "inner"
    /\ IF current_height < pallet.H /\ Positive(names, order_left) # <<>>
       THEN /\ placed_list' = <<>>
            /\ free_rects' = <<<<0, 0, pallet.L, pallet.W>>>>
            /\ valid' = SortDesc(Positive(names, order_left), AreaOf(info))
            /\ vi' = 1
            /\ rem_names' = <<>>
            /\ r' = 1
            /\ greedy_len' = 0
            /\ pc' = "greedy"
       ELSE /\ pc' = "pallet_end"
            /\ UNCHANGED <<placed_list, free_rects, valid, vi, rem_names, r,
                           greedy_len>>
    /\ UNCHANGED <<inputs, order_left, pallet_layers, layer_list,
                   current_height>>

\* Mutant of GreedyPlace: `while order_left[nm] >= 0:`.
GreedyPlaceOneMore ==
    /\ pc = "greedy"
    /\ vi <= Len(valid)
    /\ \E nm \in {valid[vi]} :
       \E res \in {try_place(free_rects, <<info[nm].L, info[nm].W>>)} :
           /\ order_left[nm] >= 0
           /\ res.ok
           /\ free_rects' = res.free
           /\ order_left' = [order_left EXCEPT ![nm] = @ - 1]
           /\ placed_list' = Append(placed_list, MkPlaced(nm, res.pos))
    /\ UNCHANGED <<inputs, pc, pallet_layers, layer_list, current_height,
                   valid, vi, rem_names, r, greedy_len>>

\* one successful iteration of `while order_left[nm] > 0:` in the greedy phase
GreedyPlace ==
    /\ pc = "greedy"
    /\ vi <= Len(valid)
    /\ \E nm \in {valid[vi]} :
       \E res \in {try_place(free_rects, <<info[nm].L, info[nm].W>>)} :
           /\ order_left[nm] > 0
           /\ res.ok
           /\ free_rects' = res.free
           /\ order_left' = [order_left EXCEPT ![nm] = @ - 1]
           /\ placed_list' = Append(placed_list, MkPlaced(nm, res.pos))
    /\ UNCHANGED <<inputs, pc, pallet_layers, layer_list, current_height,
                   valid, vi, rem_names, r, greedy_len>>

\* Mutant of GreedyNext: a failed try_place leaves the for loop, not only the
\* while loop.
GreedyNextBreakFor ==
    /\ pc = "greedy"
    /\ vi <= Len(valid)
    /\ LET nm == valid[vi]
       IN  \/ order_left[nm] <= 0 /\ vi' = vi + 1
           \/ /\ order_left[nm] > 0
              /\ ~try_place(free_rects, <<info[nm].L, info[nm].W>>).ok
              /\ vi' = Len(valid) + 1
    /\ UNCHANGED <<inputs, order_left, pc, pallet_layers, layer_list,
                   current_height, placed_list, free_rects, valid, rem_names,
                   r, greedy_len>>

\* the while loop of the greedy phase ends for valid[vi]: quantity used up,
\* or try_place reported not ok (break)
GreedyNext ==
    /\ pc = "greedy"
    /\ vi <= Len(valid)
    /\ LET nm == valid[vi]
       IN  \/ order_left[nm] <= 0
           \/ ~try_place(free_rects, <<info[nm].L, info[nm].W>>).ok
    /\ vi' = vi + 1
    /\ UNCHANGED <<inputs, order_left, pc, pallet_layers, layer_list,
                   current_height, placed_list, free_rects, valid, rem_names,
                   r, greedy_len>>

\* end of `for nm in valid`; rem_names and its ascending sort; r = 0
GreedyEnd ==
    /\ pc = "greedy"
    /\ vi > Len(valid)
    /\ rem_names' = SortAsc(Positive(names, order_left), AreaOf(info))
    /\ r' = 1
    /\ greedy_len' = Len(placed_list)
    /\ pc' = "gap"
    /\ UNCHANGED <<inputs, order_left, pallet_layers, layer_list,
                   current_height, placed_list, free_rects, valid, vi>>

\* The first name of rem_names (from position k) that has quantity left and
\* that try_place fits into the single rectangle fr; 0 when there is none.
RECURSIVE FirstFit(_, _)
FirstFit(fr, k) ==
    IF k > Len(rem_names) THEN 0
    ELSE IF /\ order_left[rem_names[k]] > 0
            /\ try_place(<<fr>>, <<info[rem_names[k]].L,
                                   info[rem_names[k]].W>>).ok
         THEN k
         ELSE FirstFit(fr, k + 1)

\* gap-fill: one pass of `while r < len(free_rects):` with filled = True
GapFill ==
    /\ pc = "gap"
    /\ r <= Len(free_rects)
    /\ \E k \in {FirstFit(free_rects[r], 1)} :
           /\ k # 0
           /\ \E nm \in {rem_names[k]} :
              \E res \in {try_place(<<free_rects[r]>>,
                                    <<info[nm].L, info[nm].W>>)} :
                  /\ order_left' = [order_left EXCEPT ![nm] = @ - 1]
                  /\ placed_list' = Append(placed_list, MkPlaced(nm, res.pos))
                  /\ free_rects' = Pop(free_rects, r) \o res.free
    /\ UNCHANGED <<inputs, pc, pallet_layers, layer_list, current_height,
                   valid, vi, rem_names, r, greedy_len>>

\* gap-fill: one pass with filled = False, r += 1
GapAdvance ==
    /\ pc = "gap"
    /\ r <= Len(free_rects)
    /\ FirstFit(free_rects[r], 1) = 0
    /\ r' = r + 1
    /\ UNCHANGED <<inputs, order_left, pc, pallet_layers, layer_list,
                   current_height, placed_list, free_rects, valid, vi,
                   rem_names, greedy_len>>

\* pack_one_layer returns; pack_all_pallets lines after the call
LayerReturn ==
    /\ pc = "gap"
    /\ r > Len(free_rects)
    /\ IF placed_list = <<>>
       THEN /\ pc' = "pallet_end"
            /\ UNCHANGED <<layer_list, current_height>>
       ELSE /\ layer_list' = Append(layer_list, placed_list)
            /\ current_height' = current_height + Tallest(placed_list)
            /\ pc' = IF Tallest(placed_list) <= 0 THEN "pallet_end"
                     ELSE IF current_height' >= pallet.H THEN "pallet_end"
                     ELSE "inner"
    /\ placed_list' = <<>>
    /\ UNCHANGED <<inputs, order_left, pallet_layers, free_rects, valid, vi,
                   rem_names, r, greedy_len>>

\* Mutant of PalletEnd: without `if not layer_list: break`.
PalletEndNoBreak ==
    /\ pc = "pallet_end"
    /\ pallet_layers' = IF layer_list = <<>> THEN pallet_layers
                        ELSE Append(pallet_layers, layer_list)
    /\ pc' = "outer"
    /\ layer_list' = <<>>
    /\ UNCHANGED <<inputs, order_left, current_height, placed_list,
                   free_rects, valid, vi, rem_names, r, greedy_len>>

\* after the inner while: `if not layer_list: break`, else append the pallet
PalletEnd ==
    /\ pc = "pallet_end"
    /\ IF layer_list = <<>>
       THEN /\ pc' = "done"
            /\ UNCHANGED pallet_layers
       ELSE /\ pallet_layers' = Append(pallet_layers, layer_list)
            /\ pc' = "outer"
    /\ layer_list' = <<>>
    /\ UNCHANGED <<inputs, order_left, current_height, placed_list,
                   free_rects, valid, vi, rem_names, r, greedy_len>>

Next ==
    \/ OuterLoop
    \/ InnerLoop
    \/ GreedyPlace
    \/ GreedyNext
    \/ GreedyEnd
    \/ GapFill
    \/ GapAdvance
    \/ LayerReturn
    \/ PalletEnd

Spec == Init /\ [][Next]_vars

\* The program is one sequential thread: whenever a step is possible it is
\* taken.
FairSpec == FairInit /\ [][Next]_vars /\ WF_vars(Next)

\* ------------------------------------------- try_place as a pure function
\* Free rectangles of the call: anchored at (0,0) or (1,2).
Rects(maxSide) == {<<pos[1], pos[2], l, w>> :
                      pos \in {<<0, 0>>, <<1, 2>>},
                      l \in 1..maxSide, w \in 1..maxSide}

\* Up to two rectangles of sides up to MaxDim, or three of sides below it.
RectLists ==
    {<<>>} \cup {<<a>> : a \in Rects(MaxDim)}
    \cup {<<a, b>> : a \in Rects(MaxDim), b \in Rects(MaxDim)}
    \cup {<<a, b, c>> : a \in Rects(MaxDim - 1), b \in Rects(MaxDim - 1),
                        c \in Rects(MaxDim - 1)}

\* The calls checked: every list of up to three rectangles with every box of
\* positive dimensions, and the rotation scenario (plane 10x6, box [6,10]).
TryPlaceCalls ==
    (RectLists \X ((1..MaxDim) \X (1..MaxDim)))
    \cup {<<<<<<0, 0, 10, 6>>>>, <<6, 10>>>>}

InitTP ==
    /\ \E call \in TryPlaceCalls :
          /\ free_rects = call[1]
          /\ boxes = [n \in NameSet |-> <<call[2][1], call[2][2], 1>>]
    /\ pallet = [L |-> MaxDim, W |-> MaxDim, H |-> MaxH]
    /\ order = [n \in NameSet |-> 1]
    /\ order_left = order
    /\ pc = "tp_call"
    /\ pallet_layers = <<>>
    /\ layer_list = <<>>
    /\ current_height = 0
    /\ placed_list = <<>>
    /\ valid = <<>>
    /\ vi = 1
    /\ rem_names = <<>>
    /\ r = 1
    /\ greedy_len = 0

\* ok, new_free, pos = try_place(free_rects, dims), as the greedy phase calls it
TryPlaceCall ==
    /\ pc = "tp_call"
    /\ \E res \in {try_place(free_rects, <<info["A"].L, info["A"].W>>)} :
           /\ free_rects' = res.free
           /\ placed_list' = <<MkPlaced("A", res.pos)>>
           /\ pc' = IF res.ok THEN "tp_ok" ELSE "tp_fail"
    /\ UNCHANGED <<inputs, order_left, pallet_layers, layer_list,
                   current_height, valid, vi, rem_names, r, greedy_len>>

NextTP == TryPlaceCall

SpecTP == InitTP /\ [][NextTP]_vars

\* ======================================================== claims: helpers
PositiveDims == \A n \in NameSet : info[n].L > 0 /\ info[n].W > 0

NonNegDims == \A n \in NameSet : info[n].L >= 0 /\ info[n].W >= 0

NonNegOrder == \A n \in NameSet : order[n] >= 0

\* The layers of the finished pallets; and every layer built so far: these,
\* those of the pallet being stacked, and the one being packed.
ReturnedLayers ==
    UNION {{pallet_layers[p][l] : l \in 1..Len(pallet_layers[p])} :
              p \in 1..Len(pallet_layers)}

Layers ==
    ReturnedLayers \cup {layer_list[l] : l \in 1..Len(layer_list)}
    \cup {placed_list}

\* Two placements whose rectangles meet in positive area.
Overlap(a, b) ==
    /\ a.x < b.x + b.L
    /\ b.x < a.x + a.L
    /\ a.y < b.y + b.W
    /\ b.y < a.y + a.W

CountIn(layer, nm) == Cardinality({i \in 1..Len(layer) : layer[i].name = nm})

RECURSIVE CountLayers(_, _)
CountLayers(ls, nm) ==
    IF ls = <<>> THEN 0 ELSE CountIn(Head(ls), nm) + CountLayers(Tail(ls), nm)

RECURSIVE CountPallets(_, _)
CountPallets(ps, nm) ==
    IF ps = <<>> THEN 0
    ELSE CountLayers(Head(ps), nm) + CountPallets(Tail(ps), nm)

\* Placements of nm so far, across all layers of all pallets.
Count(nm) ==
    CountPallets(pallet_layers, nm) + CountLayers(layer_list, nm)
    + CountIn(placed_list, nm)

RECURSIVE SumCount(_)
SumCount(ns) == IF ns = <<>> THEN 0 ELSE Count(Head(ns)) + SumCount(Tail(ns))

TotalPlaced == SumCount(names)

RECURSIVE ConsumedHeight(_)
ConsumedHeight(ls) ==
    IF ls = <<>> THEN 0 ELSE Tallest(Head(ls)) + ConsumedHeight(Tail(ls))

FitsU(fr, L, W) == L <= fr[3] /\ W <= fr[4]

FitsR(fr, L, W) == W <= fr[3] /\ L <= fr[4]

Fits(fr, L, W) == FitsU(fr, L, W) \/ FitsR(fr, L, W)

\* ================================================================= claims
\* C1 (non-overlap): with box lengths and widths positive, in every layer
\* (returned, being stacked or being packed) no two distinct placements have
\* rectangles [x, x+L) x [y, y+W) that meet in positive area.
NonOverlap ==
    PositiveDims =>
        \A layer \in Layers :
            \A i, j \in 1..Len(layer) :
                i < j => ~Overlap(layer[i], layer[j])

\* A returned layer that holds three placements, one of them rotated.
NonOverlapWitness ==
    /\ PositiveDims
    /\ \E layer \in ReturnedLayers :
          /\ Len(layer) >= 3
          /\ \E i \in 1..Len(layer) : layer[i].rotated
          /\ \E i \in 1..Len(layer) : ~layer[i].rotated

\* C2 (containment): with box lengths and widths positive, every placement of
\* every layer lies inside the pallet footprint.
Containment ==
    PositiveDims =>
        \A layer \in Layers :
            \A i \in 1..Len(layer) :
                /\ 0 <= layer[i].x
                /\ 0 <= layer[i].y
                /\ layer[i].x + layer[i].L <= pallet.L
                /\ layer[i].y + layer[i].W <= pallet.W

\* A returned layer with a rotated placement away from the origin that reaches
\* the far edge of the pallet.
ContainmentWitness ==
    /\ PositiveDims
    /\ \E layer \in ReturnedLayers :
          \E i \in 1..Len(layer) :
              /\ layer[i].rotated
              /\ layer[i].x + layer[i].y > 0
              /\ layer[i].x + layer[i].L = pallet.L

\* C3 (conservation): at every point of a run, for each box name the number
\* of placements of that name plus order_left[name] is the requested
\* quantity; for orders of non-negative quantities the placements never
\* exceed the request and order_left never goes below 0.
Conservation ==
    /\ \A n \in NameSet : Count(n) + order_left[n] = order[n]
    /\ NonNegOrder =>
          \A n \in NameSet : order_left[n] >= 0 /\ Count(n) <= order[n]

\* A finished run that stacked two layers of A on a pallet and left B, which
\* fits nowhere, unplaced.
ConservationWitness ==
    /\ pc = "done"
    /\ Len(pallet_layers) = 1
    /\ Len(pallet_layers[1]) = 2
    /\ Count("A") = order["A"]
    /\ order["A"] >= 2
    /\ order_left["B"] > 0

\* C4 (height budget), as claimed: the consumed height of every pallet of the
\* result (sum over its layers of the tallest box placed in the layer) is at
\* most pallet.H, and the pallet of height budget 15 gets exactly one layer
\* of the box of height 10.
HeightBudget ==
    /\ \A p \in 1..Len(pallet_layers) :
          ConsumedHeight(pallet_layers[p]) <= pallet.H
    /\ (inputs = <<Scenario4.pallet, Scenario4.boxes, Scenario4.order>>
        /\ pc = "done") => Len(pallet_layers[1]) = 1

\* C5 (termination): every run reaches the return of pack_all_pallets; for
\* orders of non-negative quantities the placements made never exceed
\* sum(order.values()); a step that places a box places exactly one and
\* lowers the total remaining demand by exactly 1; a pallet that received no
\* layer ends the run.
Termination ==
    /\ <>(pc = "done")
    /\ [](NonNegOrder => TotalPlaced <= SumOrder(order))
    /\ [][/\ TotalPlaced' # TotalPlaced =>
               /\ TotalPlaced' = TotalPlaced + 1
               /\ SumOrder(order_left') = SumOrder(order_left) - 1
          /\ (pc = "pallet_end" /\ layer_list = <<>>) => pc' = "done"]_vars

\* A run that returned after packing a pallet while demand that can never be
\* placed remains.
TerminationWitness ==
    /\ pc = "done"
    /\ NonNegOrder
    /\ pallet_layers # <<>>
    /\ SumOrder(order_left) > 0

\* C6, as claimed: a box type whose length or width is zero or negative is
\* never placed and its order quantity is never decremented.
Unplaceable ==
    \A n \in NameSet :
        (info[n].L <= 0 \/ info[n].W <= 0) =>
            Count(n) = 0 /\ order_left[n] = order[n]

\* C7, as claimed (its "in particular" clause): a negative quantity of one
\* box type never prevents boxes of another type from being packed.  A run on
\* the order with the negative quantities replaced by 0 places a box whenever
\* some type with positive quantity fits the empty pallet, so the run on the
\* order itself must too.
NegativeQtyIsZeroDemand ==
    (/\ pc = "done"
     /\ PositiveDims
     /\ \E n \in NameSet :
           /\ order[n] > 0
           /\ Fits(<<0, 0, pallet.L, pallet.W>>, info[n].L, info[n].W))
    => pallet_layers # <<>>

IsScenario3 == inputs = <<Scenario3.pallet, Scenario3.boxes, Scenario3.order>>

\* C8, as claimed: the scenario returns one layer holding A at (0,0) with
\* footprint 10x4 and B at (0,4) with footprint 10x6, B placed by gap-fill.
Scenario3AsClaimed ==
    (IsScenario3 /\ pc = "done") =>
        /\ Len(pallet_layers) = 1
        /\ Len(pallet_layers[1]) = 1
        /\ \E i, j \in 1..Len(pallet_layers[1][1]) :
              LET a == pallet_layers[1][1][i]
                  b == pallet_layers[1][1][j]
              IN  /\ a.name = "A" /\ a.x = 0 /\ a.y = 0 /\ a.L = 10 /\ a.W = 4
                  /\ b.name = "B" /\ b.x = 0 /\ b.y = 4 /\ b.L = 10 /\ b.W = 6
        /\ greedy_len = 1

\* C8, amended: the scenario returns one pallet of one layer that holds both
\* boxes, both placed by the greedy phase in descending area order: B at
\* (0,0) with footprint 10x6, then A at (0,6) with footprint 10x4, neither
\* rotated; no free rectangle is left, and gap-fill places nothing.
Scenario3Result ==
    /\ (IsScenario3 /\ pc = "gap") =>
          /\ free_rects = <<>>
          /\ greedy_len = 2
          /\ Len(placed_list) = 2
    /\ (IsScenario3 /\ pc = "done") =>
          /\ order_left = [n \in NameSet |-> 0]
          /\ pallet_layers =
               << << << [name |-> "B", x |-> 0, y |-> 0, L |-> 10, W |-> 6,
                         H |-> 5, rotated |-> FALSE],
                        [name |-> "A", x |-> 0, y |-> 6, L |-> 10, W |-> 4,
                         H |-> 5, rotated |-> FALSE] >> >> >>

\* The scenario's run has returned.
Scenario3Witness == IsScenario3 /\ pc = "done" /\ pallet_layers # <<>>

\* ------------------------------------------------------ C9: best fit
Feasible(rects, L, W) == {i \in 1..Len(rects) : Fits(rects[i], L, W)}

\* First in list order among the feasible rectangles of minimum area.
Chosen(rects, L, W) ==
    CHOOSE i \in Feasible(rects, L, W) :
        \A j \in Feasible(rects, L, W) :
            \/ rects[j][3] * rects[j][4] > rects[i][3] * rects[i][4]
            \/ rects[j][3] * rects[j][4] = rects[i][3] * rects[i][4] /\ i <= j

\* The result the claim describes, for a call that finds a rectangle.
BestFitResult(rects, L, W) ==
    LET i == Chosen(rects, L, W)
        fr == rects[i]
        rot == ~FitsU(fr, L, W)
        usedL == IF rot THEN W ELSE L
        usedW == IF rot THEN L ELSE W
        right == IF fr[3] - usedL > 0
                 THEN << <<fr[1] + usedL, fr[2], fr[3] - usedL, usedW>> >>
                 ELSE <<>>
        top == IF fr[4] - usedW > 0
               THEN << <<fr[1], fr[2] + usedW, fr[3], fr[4] - usedW>> >>
               ELSE <<>>
    IN  [free |-> SubSeq(rects, 1, i - 1) \o SubSeq(rects, i + 1, Len(rects))
                  \o right \o top,
         pos |-> <<fr[1], fr[2], usedL, usedW, rot>>]

\* C9 (best fit): for a list of free rectangles and a box of positive
\* dimensions, try_place finds a placement iff some rectangle admits the box
\* in an orientation; it then consumes the first rectangle of minimum area
\* among the feasible ones, places at its corner, unrotated whenever the
\* unrotated box fits it, and returns the list minus that rectangle plus the
\* right and top remainders that have a positive varying side; when nothing
\* fits the list comes back unchanged.
BestFit ==
    [][pc = "tp_call" =>
        LET L == info["A"].L
            W == info["A"].W
        IN  IF Feasible(free_rects, L, W) = {}
            THEN pc' = "tp_fail" /\ free_rects' = free_rects
            ELSE LET e == BestFitResult(free_rects, L, W)
                 IN  /\ pc' = "tp_ok"
                     /\ free_rects' = e.free
                     /\ placed_list'[1].x = e.pos[1]
                     /\ placed_list'[1].y = e.pos[2]
                     /\ placed_list'[1].L = e.pos[3]
                     /\ placed_list'[1].W = e.pos[4]
                     /\ placed_list'[1].rotated = e.pos[5]]_vars

\* A call that placed the box rotated in the second of two rectangles, away
\* from the origin, and left the right remainder only.
BestFitWitness ==
    /\ pc = "tp_ok"
    /\ placed_list[1].rotated
    /\ placed_list[1].x = 1
    /\ Len(free_rects) = 2
    /\ free_rects[1][1] = 0
    /\ free_rects[2] = <<2, 2, 1, 3>>

\* C10 (gap-fill never places): with box lengths and widths non-negative,
\* once the greedy phase has ended no box type with quantity left fits a free
\* rectangle in either orientation, and the placement list keeps the length
\* it had when the greedy phase ended, up to the return of pack_one_layer.
GapFillIdle ==
    (NonNegDims /\ pc = "gap") =>
        /\ Len(placed_list) = greedy_len
        /\ \A n \in NameSet :
              order_left[n] > 0 =>
                  \A i \in 1..Len(free_rects) :
                      ~Fits(free_rects[i], info[n].L, info[n].W)

\* The gap-fill scan has reached the end of a list of several free
\* rectangles while a box type still has quantity left and the layer holds
\* placements.
GapFillIdleWitness ==
    /\ NonNegDims
    /\ pc = "gap"
    /\ r > Len(free_rects)
    /\ Len(free_rects) >= 2
    /\ rem_names # <<>>
    /\ placed_list # <<>>
====
